---- MODULE Spec2Model ----
(***************************************************************************)
(* react-systyle: the prop pipeline of a styled component and the fluent   *)
(* derivation API (.with, .as, .css, .wrap, .animate), as documented in    *)
(* the package README.                                                     *)
(*                                                                         *)
(* A props object is a function from key strings to values.  A value is a  *)
(* one-field record whose field name is its JavaScript type, so that       *)
(* values of different types can be compared.                              *)
(***************************************************************************)
EXTENDS Integers, Sequences, FiniteSets, TLC

VARIABLES defs, last

vars == <<defs, last>>

---------------------------------------------------------------------------
(* Values and props objects *)

Str(s) == [str |-> s]

Num(n) == [num |-> n]

Bool(b) == [bool |-> b]

Undefined == [undef |-> TRUE]

\* A nested style object, the value of a selector key such as ':hover'.
Block(p) == [block |-> p]

\* A raw CSS string, kept as the sequence of its pieces.
Raw(pieces) == [css |-> pieces]

NoProps == << >>

IsNum(v) == DOMAIN v = {"num"}

IsStr(v) == DOMAIN v = {"str"}

\* JavaScript truthiness of a value.
Truthy(v) ==
    CASE DOMAIN v = {"undef"} -> FALSE
      [] DOMAIN v = {"bool"}  -> v.bool
      [] DOMAIN v = {"num"}   -> v.num # 0
      [] DOMAIN v = {"str"}   -> v.str # ""
      [] OTHER                -> TRUE

\* a || b
Or(a, b) == IF Truthy(a) THEN a ELSE b

\* props.k, undefined when the key is absent
Get(p, k) == IF k \in DOMAIN p THEN p[k] ELSE Undefined

\* { ...a, ...b }
Merge(a, b) == b @@ a

\* const { k1, k2, ...rest } = p
Omit(p, ks) == [k \in DOMAIN p \ ks |-> p[k]]

---------------------------------------------------------------------------
(* The moulinettes of the README *)

setActiveStyle(props) ==
    LET active == Get(props, "active")
    IN  Merge(Omit(props, {"active"}),
              [background |-> IF Truthy(active) THEN Str("green") ELSE Str("red"),
               cursor     |-> IF Truthy(active) THEN Str("pointer")
                                                ELSE Str("not-allowed")])

styleDisabled(props) ==
    LET disabled == Get(props, "disabled")
    IN  Merge(Omit(props, {"disabled"}),
              [disabled   |-> disabled,
               background |-> IF Truthy(disabled) THEN Str("gray") ELSE Str("white"),
               cursor     |-> IF Truthy(disabled) THEN Str("not-allowed")
                                                  ELSE Str("pointer")])

\* fallback = '...' in the parameter list: the default applies to undefined.
loader(props) ==
    LET loading  == Get(props, "loading")
        fallback == IF Get(props, "fallback") = Undefined THEN Str("...")
                                                          ELSE props["fallback"]
    IN  [disabled |-> Or(loading, Get(props, "disabled")),
         children |-> IF Truthy(loading) THEN fallback ELSE Get(props, "children")]

CallFn(name, props) ==
    CASE name = "setActiveStyle" -> setActiveStyle(props)
      [] name = "styleDisabled"  -> styleDisabled(props)
      [] name = "loader"         -> loader(props)

---------------------------------------------------------------------------
(* Moulinettes: the entries of a definition's ordered chain *)

\* An argument of .with(): a default-props object or a function.
Obj(p) == [obj |-> p]

Fn(name) == [fn |-> name]

\* A piece of a .css template: static text, or an interpolated function
\* props => props[key].
Text(s) == [text |-> s]

PropFn(key) == [prop |-> key]

\* .with(object): the object's keys are defaults under the props received.
DefaultsMoulinette(p) == [kind |-> "defaults", props |-> p]

FnMoulinette(name) == [kind |-> "fn", name |-> name]

CssMoulinette(tpl) == [kind |-> "css", tpl |-> tpl]

ToMoulinette(arg) ==
    IF DOMAIN arg = {"obj"} THEN DefaultsMoulinette(arg.obj)
                            ELSE FnMoulinette(arg.fn)

\* The CSS string of a template: static pieces as they are, interpolated
\* functions called with the props computed so far.
BuildCss(tpl, props) ==
    [i \in 1..Len(tpl) |->
        IF DOMAIN tpl[i] = {"prop"} THEN Get(props, tpl[i].prop)
                                    ELSE Str(tpl[i].text)]

\* The props already carry the CSS of the .css calls made later (their
\* moulinettes ran first): it stays on top of, that is after, this CSS.
ApplyCss(tpl, props) ==
    LET later == IF "css" \in DOMAIN props THEN props["css"].css ELSE << >>
    IN  Merge(props, [css |-> Raw(BuildCss(tpl, props) \o later)])

\* A moulinette whose defaults object overwrites the props received.
ApplyDefaultsOver(m, props) ==
    CASE m.kind = "defaults" -> Merge(props, m.props)
      [] m.kind = "fn"       -> CallFn(m.name, props)
      [] m.kind = "css"      -> ApplyCss(m.tpl, props)

\* One moulinette applied to props.
Apply(m, props) ==
    CASE m.kind = "defaults" -> Merge(m.props, props)
      [] m.kind = "fn"       -> CallFn(m.name, props)
      [] m.kind = "css"      -> ApplyCss(m.tpl, props)

---------------------------------------------------------------------------
(* Rendering: the chain, last added moulinette first *)

\* The run of the moulinettes chain[1..n] on props: one record per
\* moulinette in execution order, with the props it received and returned.
RECURSIVE RunChain(_, _, _)
RunChain(chain, n, props) ==
    IF n = 0 THEN << >>
    ELSE LET out == Apply(chain[n], props)
         IN  <<[index |-> n, input |-> props, output |-> out]>>
                 \o RunChain(chain, n - 1, out)

\* The props the chain leaves.
Chained(trace, props) ==
    IF trace = << >> THEN props ELSE trace[Len(trace)].output

\* A run in the order of registration, first added moulinette first.
RECURSIVE RunForward(_, _, _)
RunForward(chain, i, props) ==
    IF i > Len(chain) THEN << >>
    ELSE LET out == Apply(chain[i], props)
         IN  <<[index |-> i, input |-> props, output |-> out]>>
                 \o RunForward(chain, i + 1, out)

RunInOrder(chain, props) == RunForward(chain, 1, props)

\* A run that keeps the render props away from the moulinettes and merges
\* them over what the chain computed.
RunThenMerge(chain, props) ==
    LET t == RunChain(chain, Len(chain), NoProps)
    IN  [j \in 1..Len(t) |->
            IF j = Len(t) THEN [t[j] EXCEPT !.output = Merge(@, props)] ELSE t[j]]

\* A run that applies every defaults object before any other moulinette.
RECURSIVE RunOrder(_, _, _, _)
RunOrder(chain, order, n, props) ==
    IF n = 0 THEN << >>
    ELSE LET out == Apply(chain[order[n]], props)
         IN  <<[index |-> order[n], input |-> props, output |-> out]>>
                 \o RunOrder(chain, order, n - 1, out)

RunDefaultsFirst(chain, props) ==
    LET IsDefaultsAt(i) == chain[i].kind = "defaults"
        NotDefaultsAt(i) == chain[i].kind # "defaults"
        all == [i \in 1..Len(chain) |-> i]
        order == SelectSeq(all, NotDefaultsAt) \o SelectSeq(all, IsDefaultsAt)
    IN  RunOrder(chain, order, Len(order), props)

\* The moulinettes of a definition run on the props passed at render.
Run(chain, props) == RunChain(chain, Len(chain), props)

---------------------------------------------------------------------------
(* Prop aliases *)

\* A table whose axis shorthands stand for one side only.
AliasTableOneSide ==
    [bg   |-> {"backgroundColor"},
     font |-> {"fontFamily"},
     size |-> {"fontSize"},
     m    |-> {"margin"},
     mx   |-> {"marginLeft"},
     my   |-> {"marginTop", "marginBottom"},
     mt   |-> {"marginTop"},
     mr   |-> {"marginRight"},
     mb   |-> {"marginBottom"},
     ml   |-> {"marginLeft"},
     p    |-> {"padding"},
     px   |-> {"paddingLeft"},
     py   |-> {"paddingTop", "paddingBottom"},
     pt   |-> {"paddingTop"},
     pr   |-> {"paddingRight"},
     pb   |-> {"paddingBottom"},
     pl   |-> {"paddingLeft"},
     b    |-> {"border"},
     bx   |-> {"borderLeft", "borderRight"},
     by   |-> {"borderTop", "borderBottom"},
     bt   |-> {"borderTop"},
     br   |-> {"borderRight"},
     bb   |-> {"borderBottom"},
     bl   |-> {"borderLeft"}]

\* Shorthand key -> the properties it stands for.
AliasTable ==
    [bg   |-> {"backgroundColor"},
     font |-> {"fontFamily"},
     size |-> {"fontSize"},
     m    |-> {"margin"},
     mx   |-> {"marginLeft", "marginRight"},
     my   |-> {"marginTop", "marginBottom"},
     mt   |-> {"marginTop"},
     mr   |-> {"marginRight"},
     mb   |-> {"marginBottom"},
     ml   |-> {"marginLeft"},
     p    |-> {"padding"},
     px   |-> {"paddingLeft", "paddingRight"},
     py   |-> {"paddingTop", "paddingBottom"},
     pt   |-> {"paddingTop"},
     pr   |-> {"paddingRight"},
     pb   |-> {"paddingBottom"},
     pl   |-> {"paddingLeft"},
     b    |-> {"border"},
     bx   |-> {"borderLeft", "borderRight"},
     by   |-> {"borderTop", "borderBottom"},
     bt   |-> {"borderTop"},
     br   |-> {"borderRight"},
     bb   |-> {"borderBottom"},
     bl   |-> {"borderLeft"}]

AliasKeys == DOMAIN AliasTable

\* The properties a key stands for: an alias's targets, any other key itself.
Targets(k) == IF k \in AliasKeys THEN AliasTable[k] ELSE {k}

\* The key of p that gives property t its value: t itself when given
\* literally, else the one-property shorthand, else the axis shorthand.
SourceKey(p, t) ==
    IF t \in DOMAIN p \ AliasKeys THEN t
    ELSE LET one == {a \in DOMAIN p \cap AliasKeys : AliasTable[a] = {t}}
             any == {a \in DOMAIN p \cap AliasKeys : t \in AliasTable[a]}
         IN  IF one # {} THEN CHOOSE a \in one : TRUE
                         ELSE CHOOSE a \in any : TRUE

\* Every shorthand key replaced by the properties it stands for.
ExpandAliases(p) ==
    LET keys == UNION {Targets(k) : k \in DOMAIN p}
    IN  [t \in keys |-> p[SourceKey(p, t)]]

---------------------------------------------------------------------------
(* Theme helpers *)

\* The theme of the README.
ReadmeTheme ==
    [spacing |-> 8,
     colors  |-> [primary |-> Str("red")],
     fonts   |-> [header |-> Str("serif"), body |-> Str("sans-serif")],
     sizes   |-> [M |-> Num(16), L |-> Num(24)]]

ThemeValue(t) == [theme |-> t]

\* The theme the component received as a prop, if any.
HasTheme(p) == "theme" \in DOMAIN p /\ DOMAIN p["theme"] = {"theme"}

\* theme.spacing, 1 without it
Spacing(p) ==
    IF HasTheme(p) /\ "spacing" \in DOMAIN p["theme"].theme
    THEN p["theme"].theme.spacing ELSE 1

\* theme[section], empty without it
Section(p, section) ==
    IF HasTheme(p) /\ section \in DOMAIN p["theme"].theme
    THEN p["theme"].theme[section] ELSE << >>

SpacingProps ==
    {"margin", "marginTop", "marginRight", "marginBottom", "marginLeft",
     "padding", "paddingTop", "paddingRight", "paddingBottom", "paddingLeft"}

\* Theme colors for the color property alone.
ThemeSectionColorOnly(k) ==
    CASE k = "color"      -> "colors"
      [] k = "fontFamily" -> "fonts"
      [] k = "fontSize"   -> "sizes"
      [] OTHER            -> "none"

\* The theme section whose names a property's value may use.
ThemeSection(k) ==
    CASE k \in {"color", "borderColor", "backgroundColor"} -> "colors"
      [] k = "fontFamily" -> "fonts"
      [] k = "fontSize"   -> "sizes"
      [] OTHER            -> "none"

\* A name of the section stands for its value, anything else for itself.
Lookup(table, v) ==
    IF IsStr(v) /\ v.str \in DOMAIN table THEN table[v.str] ELSE v

ThemeResolve(p, k) ==
    IF k \in SpacingProps /\ IsNum(p[k]) THEN Num(p[k].num * Spacing(p))
    ELSE IF ThemeSection(k) # "none" THEN Lookup(Section(p, ThemeSection(k)), p[k])
    ELSE p[k]

ResolveTheme(p) == [k \in DOMAIN p |-> ThemeResolve(p, k)]

\* The resolved props: the chain's props with aliases expanded and theme
\* values substituted.
Resolve(p) == ResolveTheme(ExpandAliases(p))

---------------------------------------------------------------------------
(* Style props and forwarded props *)

\* The CSS property names that occur in the props of this model.
CssProperties ==
    {"width", "height", "background", "backgroundColor", "color", "borderColor",
     "cursor", "display", "flexDirection", "alignItems", "animation",
     "fontFamily", "fontSize",
     "border", "borderTop", "borderRight", "borderBottom", "borderLeft"}
        \cup SpacingProps

\* The CSS selectors and at-rules that occur as keys.
Selectors == {"& p", ":hover", "@media (max-width: 720px)"}

\* Only the CSS property names generate CSS.
IsCssProperty(k) == k \in CssProperties \cup {"css"}

\* A key that generates CSS: a CSS property, a selector or at-rule, or the
\* raw CSS of the .css templates.
IsStyleKey(k) == k \in CssProperties \cup Selectors \cup {"css"}

\* The props used to generate the CSS.
StyleOf(p) == [k \in {x \in DOMAIN p : IsStyleKey(x)} |-> p[k]]

\* The props forwarded to the rendered element.
ForwardedOf(p) == [k \in {x \in DOMAIN p : ~IsStyleKey(x)} |-> p[k]]

\* The rendered element: the 'as' prop, a div without it.
ElementOf(p) == IF "as" \in DOMAIN p THEN p["as"] ELSE Str("div")

---------------------------------------------------------------------------
(* Definitions and their derivation *)

\* The exported component: no moulinette, no wrapper.
Styled == [chain |-> << >>, wraps |-> << >>]

\* .with() that takes its arguments from the last to the first.
WithOfReversed(d, args) ==
    [d EXCEPT !.chain =
        @ \o [i \in 1..Len(args) |-> ToMoulinette(args[Len(args) + 1 - i])]]

\* .with() that puts the new moulinettes in front of the chain.
WithOfPrepend(d, args) ==
    [d EXCEPT !.chain = [i \in 1..Len(args) |-> ToMoulinette(args[i])] \o @]

\* .with(a1, ..., an)
WithOf(d, args) ==
    [d EXCEPT !.chain = @ \o [i \in 1..Len(args) |-> ToMoulinette(args[i])]]

\* .as(tag), the shorthand of .with({ as: tag })
AsOf(d, tag) == WithOf(d, <<Obj([as |-> Str(tag)])>>)

\* .css`...`, the shorthand that adds one moulinette
CssOf(d, tpl) == [d EXCEPT !.chain = Append(@, CssMoulinette(tpl))]

\* .wrap(hoc)
WrapOf(d, hoc) == [d EXCEPT !.wraps = Append(@, hoc)]

\* .animate(settings, name), the shorthand that binds an animation
AnimateOf(d, settings, name) ==
    WithOf(d, <<Obj([animation |-> [animation |-> <<name, settings>>]])>>)

\* A derivation that adds to the lists of the definition it was called on.
SourceShared(d, nd) == nd

\* What a derivation call leaves of the definition it was called on.
SourceAfter(d, nd) == d

\* The props a wrapper hands down: withTheme injects the theme.
WrapProps(hoc, props) ==
    IF hoc = "withTheme" THEN Merge(props, [theme |-> ThemeValue(ReadmeTheme)])
                         ELSE props

\* The props the component receives inside its wrappers, the last added
\* wrapper outermost.
RECURSIVE Wrapped(_, _, _)
Wrapped(wraps, n, props) ==
    IF n = 0 THEN props
    ELSE Wrapped(wraps, n - 1, WrapProps(wraps[n], props))

\* One render of definition d with the props passed to it.
RenderOf(d, props) ==
    LET received == Wrapped(d.wraps, Len(d.wraps), props)
        trace    == Run(d.chain, received)
        chained  == Chained(trace, received)
        resolved == Resolve(chained)
    IN  [op        |-> "render",
         def       |-> d,
         props     |-> props,
         received  |-> received,
         trace     |-> trace,
         chained   |-> chained,
         resolved  |-> resolved,
         style     |-> StyleOf(resolved),
         forwarded |-> ForwardedOf(resolved),
         element   |-> ElementOf(resolved)]

---------------------------------------------------------------------------
(* The inputs the operations are called with *)

\* The most definitions a run creates, Styled included.
MaxDefs == 3

Size100 == [width |-> Num(100), height |-> Num(100)]

Square == [width |-> Num(100), height |-> Num(100), background |-> Str("transparent")]

Blue == [background |-> Str("blue")]

InsideBlue == [insideProp |-> Str("blue")]

\* Styled.css`width: 100px; height: 100px; background: blue;`
BlueSquareCss == <<Text("width: 100px; height: 100px; background: blue;")>>

\* .css`background: red;`
RedCss == <<Text("background: red;")>>

\* .css`... background: ${props => props.myColor};`
ColoredSquareCss ==
    <<Text("width: 100px; height: 100px; background: "), PropFn("myColor"), Text(";")>>

\* .css`... background: ${props => props.insideProp};`
InsidePropCss ==
    <<Text("width: 100px; height: 100px; background: "), PropFn("insideProp"), Text(";")>>

\* The css object of the README: properties, selectors and an at-rule.
CssObject ==
    [width |-> Num(100), height |-> Num(100), background |-> Str("blue")]
    @@ ("& p" :> Block([color |-> Str("white")]))
    @@ (":hover" :> Block([background |-> Str("yellow")]))
    @@ ("@media (max-width: 720px)" :>
            Block(("&" :> Block([background |-> Str("green")]))
                  @@ ("& p" :> Block([color |-> Str("yellow")]))))

\* A theme that names colors only.
ColorsTheme == [colors |-> [primary |-> Str("red")]]

\* Inputs of the runs about the order of the moulinettes.
WithArgs ==
    {<<Fn("setActiveStyle")>>, <<Fn("styleDisabled")>>, <<Fn("loader")>>,
     <<Obj(Size100)>>,
     <<Obj(Size100), Fn("setActiveStyle")>>,
     <<Fn("styleDisabled"), Fn("loader")>>,
     <<Fn("setActiveStyle"), Obj(Blue)>>}

Tags == {"button"}

Templates == {ColoredSquareCss}

Hocs == {"withTheme"}

Animations == {<<"2s ease-out", "slide-up">>}

RenderProps ==
    {NoProps,
     [active |-> Bool(TRUE)],
     [disabled |-> Bool(TRUE)],
     [loading |-> Bool(TRUE), fallback |-> Str("Loading..."), children |-> Str("Load")],
     [myColor |-> Str("blue")]}

\* Inputs of the runs about defaults and .css templates.
DefaultsWithArgs ==
    {<<Obj(Square)>>, <<Obj(Blue)>>, <<Obj(Size100)>>, <<Obj(InsideBlue)>>,
     <<Obj(Square), Obj(Blue)>>,
     <<Fn("setActiveStyle")>>}

DefaultsTemplates == {BlueSquareCss, RedCss, InsidePropCss}

DefaultsRenderProps ==
    {NoProps,
     [width |-> Num(200)],
     [background |-> Str("yellow")],
     [width |-> Num(200), insideProp |-> Str("green")]}

\* Inputs of the runs about aliases, the theme and the forwarded props.
ThemeWithArgs ==
    {<<Obj([font |-> Str("body"), size |-> Str("M")])>>,
     <<Obj([font |-> Str("header"), size |-> Str("L"), color |-> Str("primary")])>>,
     <<Obj([px |-> Num(2), py |-> Num(1), b |-> Str("1px solid black")])>>,
     <<Obj([display |-> Str("flex")])>>}

ThemeTags == {"span", "h1"}

ThemeRenderProps ==
    {NoProps,
     [mx |-> Num(8)],
     [mx |-> Num(2), theme |-> ThemeValue(ReadmeTheme)],
     [color |-> Str("primary"), theme |-> ThemeValue(ReadmeTheme)],
     [color |-> Str("red")],
     [color |-> Str("red"), theme |-> ThemeValue(ReadmeTheme)],
     [color |-> Str("primary")],
     [bg |-> Str("primary"), borderColor |-> Str("primary"), m |-> Num(3),
      theme |-> ThemeValue(ColorsTheme)],
     [font |-> Str("header"), size |-> Str("M"), fontSize |-> Num(32),
      theme |-> ThemeValue(ReadmeTheme)],
     [mx |-> Num(8), ml |-> Num(2), marginRight |-> Str("auto"),
      theme |-> ThemeValue(ReadmeTheme)],
     [as |-> Str("h1"), size |-> Num(32), mb |-> Num(8)],
     [id |-> Str("main"), width |-> Num(100), height |-> Num(100),
      background |-> Str("blue")],
     CssObject}

---------------------------------------------------------------------------
(* The operations *)

Init ==
    /\ defs = {Styled}
    /\ last = [op |-> "init"]

\* A derivation call on d that returns nd.
Derive(op, d, args, nd) ==
    /\ Cardinality(defs) < MaxDefs
    /\ defs' = (defs \ {d}) \cup {SourceAfter(d, nd), nd}
    /\ last' = [op |-> op, def |-> d, args |-> args, result |-> nd]

With(argLists) ==
    \E d \in defs, args \in argLists : Derive("with", d, args, WithOf(d, args))

As(tags) ==
    \E d \in defs, tag \in tags : Derive("as", d, tag, AsOf(d, tag))

Css(templates) ==
    \E d \in defs, tpl \in templates : Derive("css", d, tpl, CssOf(d, tpl))

Wrap(hocs) ==
    \E d \in defs, hoc \in hocs : Derive("wrap", d, hoc, WrapOf(d, hoc))

Animate(animations) ==
    \E d \in defs, a \in animations :
        Derive("animate", d, a, AnimateOf(d, a[1], a[2]))

Render(propsSet) ==
    \E d \in defs, props \in propsSet :
        /\ last' = RenderOf(d, props)
        /\ UNCHANGED defs

Next ==
    \/ With(WithArgs)
    \/ As(Tags)
    \/ Css(Templates)
    \/ Wrap(Hocs)
    \/ Animate(Animations)
    \/ Render(RenderProps)

Spec == Init /\ [][Next]_vars

NextDefaults ==
    \/ With(DefaultsWithArgs)
    \/ Css(DefaultsTemplates)
    \/ Render(DefaultsRenderProps)

SpecDefaults == Init /\ [][NextDefaults]_vars

NextTheme ==
    \/ With(ThemeWithArgs)
    \/ As(ThemeTags)
    \/ Wrap(Hocs)
    \/ Render(ThemeRenderProps)

SpecTheme == Init /\ [][NextTheme]_vars

---------------------------------------------------------------------------
(* Properties *)

DerivationOps == {"with", "as", "css", "wrap", "animate"}

Rendered == last.op = "render"

\* The props the moulinettes added after chain[i] make of props.
RECURSIVE After(_, _, _)
After(chain, i, props) ==
    IF i >= Len(chain) THEN props
    ELSE Apply(chain[i + 1], After(chain, i + 1, props))

\* Button = Styled.as('button').with(styleDisabled); AsyncButton = Button.with(loader)
AsyncButtonChain ==
    <<DefaultsMoulinette([as |-> Str("button")]),
      FnMoulinette("styleDisabled"), FnMoulinette("loader")>>

LoadingProps ==
    [loading |-> Bool(TRUE), fallback |-> Str("Loading..."), children |-> Str("Load")]

\* C1: every render runs the moulinettes from the last added to the first
\* added, each one receiving what the one added just after it returned (the
\* last added receives the props of the render), so that a moulinette sees
\* exactly what the moulinettes added after it made of the props; AsyncButton
\* rendered with loading is disabled, gray, with a not-allowed cursor.
C1_LastAddedRunsFirst ==
    Rendered =>
        LET t == last.trace
            n == Len(last.def.chain)
        IN  /\ Len(t) = n
            /\ \A j \in 1..n :
                  /\ t[j].index = n + 1 - j
                  /\ t[j].input = IF j = 1 THEN last.received ELSE t[j - 1].output
                  /\ t[j].input = After(last.def.chain, t[j].index, last.received)
                  /\ t[j].output = Apply(last.def.chain[n + 1 - j], t[j].input)
            /\ (last.def.chain = AsyncButtonChain /\ last.props = LoadingProps) =>
                  /\ last.resolved["disabled"] = Bool(TRUE)
                  /\ last.resolved["background"] = Str("gray")
                  /\ last.resolved["cursor"] = Str("not-allowed")
                  /\ last.resolved["children"] = Str("Loading...")

C1_Witness ==
    /\ Rendered
    /\ last.def.chain = AsyncButtonChain
    /\ last.props = LoadingProps
    /\ last.trace[1].index = 3
    /\ last.trace[2].input["disabled"] = Bool(TRUE)
    /\ last.resolved["background"] = Str("gray")

\* Toggle = Styled.with({ width: 100, height: 100 }).with(setActiveStyle)
ToggleChain == <<DefaultsMoulinette(Size100), FnMoulinette("setActiveStyle")>>

\* C4: the moulinette added last receives the props passed at render:
\* Toggle rendered with active is green with a pointer cursor, without it
\* red with a not-allowed cursor, 100 wide and high both times; the function
\* of the ColoredSquare template receives the myColor of the render.
C4_MoulinetteReceivesRenderProps ==
    Rendered =>
        /\ last.def.wraps = << >> => last.received = last.props
        /\ last.trace # << >> => last.trace[1].input = last.received
        /\ (last.def.chain = ToggleChain /\ last.props = [active |-> Bool(TRUE)]) =>
              /\ last.resolved["background"] = Str("green")
              /\ last.resolved["cursor"] = Str("pointer")
              /\ last.resolved["width"] = Num(100)
              /\ last.resolved["height"] = Num(100)
        /\ (last.def.chain = ToggleChain /\ last.props = NoProps) =>
              /\ last.resolved["background"] = Str("red")
              /\ last.resolved["cursor"] = Str("not-allowed")
              /\ last.resolved["width"] = Num(100)
              /\ last.resolved["height"] = Num(100)
        /\ (last.def.chain = <<CssMoulinette(ColoredSquareCss)>>
                /\ last.props = [myColor |-> Str("blue")]) =>
              last.resolved["css"] =
                  Raw(<<Str("width: 100px; height: 100px; background: "),
                        Str("blue"), Str(";")>>)

C4_Witness ==
    /\ Rendered
    /\ last.def.chain = ToggleChain
    /\ last.props = [active |-> Bool(TRUE)]
    /\ last.trace[1].input = [active |-> Bool(TRUE)]
    /\ last.resolved["background"] = Str("green")

\* d.with(a1).with(a2)...with(an)
RECURSIVE Chaining(_, _, _)
Chaining(d, args, n) ==
    IF n = 0 THEN d ELSE WithOf(Chaining(d, args, n - 1), <<args[n]>>)

\* Render props with and without a theme.
AnyRenderProps ==
    RenderProps \cup
        {[active |-> Bool(TRUE), mx |-> Num(2), theme |-> ThemeValue(ReadmeTheme)],
         [disabled |-> Bool(TRUE), color |-> Str("primary"), id |-> Str("main"),
          theme |-> ThemeValue(ReadmeTheme)],
         [width |-> Num(200), background |-> Str("yellow"), theme |-> ThemeValue(ColorsTheme)]}

\* C6: the component .with(a1, ..., an) returns resolves every render props,
\* with any theme, to what the component of the chain .with(a1)...with(an)
\* resolves them to.
C6_VariadicWithIsChaining ==
    last.op = "with" =>
        \A p \in AnyRenderProps :
            LET many    == RenderOf(last.result, p)
                chained == RenderOf(Chaining(last.def, last.args, Len(last.args)), p)
            IN  /\ many.resolved = chained.resolved
                /\ many.style = chained.style
                /\ many.forwarded = chained.forwarded

C6_Witness ==
    /\ last.op = "with"
    /\ last.args = <<Obj(Size100), Fn("setActiveStyle")>>
    /\ last.result.chain = ToggleChain
    /\ last.result \in defs

\* C7: a derivation call leaves every definition made so far as it was, the
\* one it was called on included: its moulinettes and wrappers, in order.
C7_DerivationLeavesSource == [][\A d \in defs : d \in defs']_vars

C7_Witness ==
    /\ last.op \in DerivationOps
    /\ last.def # Styled
    /\ last.result # last.def
    /\ last.def \in defs
    /\ last.result \in defs

IsDefaults(m) == m.kind = "defaults"

\* The right-biased shallow merge of the objects of the first n moulinettes.
RECURSIVE MergedDefaults(_, _)
MergedDefaults(ms, n) ==
    IF n = 0 THEN NoProps
    ELSE [k \in DOMAIN ms[n].props \cup DOMAIN MergedDefaults(ms, n - 1) |->
            IF k \in DOMAIN ms[n].props THEN ms[n].props[k]
                                        ELSE MergedDefaults(ms, n - 1)[k]]

OnlyDefaults(d) == \A i \in 1..Len(d.chain) : IsDefaults(d.chain[i])

\* The objects among the arguments of a .with() call, in call order.
ObjectsOf(args) ==
    LET IsObj(a) == DOMAIN a = {"obj"}
        objs == SelectSeq(args, IsObj)
    IN  [i \in 1..Len(objs) |-> DefaultsMoulinette(objs[i].obj)]

\* C2: a component made of default-props objects only, rendered with no
\* props, resolves to the right-biased shallow merge of the objects in the
\* order of the .with() calls that added them: the object of a later call
\* comes later in the order, the value defined latest wins a collision and
\* the keys defined only earlier are kept (BlueSquare = Square.with({
\* background: 'blue' }) is blue, 100 wide and high).
C2_DefaultsStackInCallOrder ==
    /\ (Rendered /\ OnlyDefaults(last.def) /\ last.props = NoProps) =>
          /\ last.chained = MergedDefaults(last.def.chain, Len(last.def.chain))
          /\ last.resolved = Resolve(MergedDefaults(last.def.chain, Len(last.def.chain)))
    /\ (last.op = "with" /\ OnlyDefaults(last.result)) =>
          /\ last.result.chain = last.def.chain \o ObjectsOf(last.args)
          /\ RenderOf(last.result, NoProps).chained =
                MergedDefaults(last.def.chain \o ObjectsOf(last.args),
                               Len(last.def.chain) + Len(last.args))

C2_Witness ==
    /\ Rendered
    /\ last.def.chain = <<DefaultsMoulinette(Square), DefaultsMoulinette(Blue)>>
    /\ last.props = NoProps
    /\ last.resolved =
          [width |-> Num(100), height |-> Num(100), background |-> Str("blue")]

\* The indexes of the default-props objects of the chain that set key k.
DefaultsSetting(d, k) ==
    {i \in 1..Len(d.chain) : IsDefaults(d.chain[i]) /\ k \in DOMAIN d.chain[i].props}

\* No function or template of the run changed key k.
NotRewritten(d, trace, k) ==
    \A j \in 1..Len(trace) :
        ~IsDefaults(d.chain[trace[j].index]) =>
            /\ (k \in DOMAIN trace[j].output) = (k \in DOMAIN trace[j].input)
            /\ Get(trace[j].output, k) = Get(trace[j].input, k)

\* C3: a key passed at render that defaults of the definition set, however
\* many of them, keeps the value of the render when no function or template
\* of the chain rewrites it (Styled.with({ width: 100 ... }) rendered with
\* width 200 resolves width to 200).  The keys of these runs are neither
\* shorthands nor named by a theme, so the resolved value is the merged one.
C3_RenderPropsOverDefaults ==
    Rendered =>
        \A k \in DOMAIN last.props :
            (DefaultsSetting(last.def, k) # {} /\ NotRewritten(last.def, last.trace, k)) =>
                /\ last.chained[k] = last.props[k]
                /\ last.resolved[k] = last.props[k]

C3_Witness ==
    /\ Rendered
    /\ Cardinality(DefaultsSetting(last.def, "width")) = 2
    /\ last.props = [width |-> Num(200)]
    /\ last.resolved["width"] = Num(200)
    /\ last.resolved["height"] = Num(100)

\* Styled.with({ insideProp: 'blue' }).css`... ${props => props.insideProp}`
InsideBeforeCss == <<DefaultsMoulinette(InsideBlue), CssMoulinette(InsidePropCss)>>

\* Styled.css`... ${props => props.insideProp}`.with({ insideProp: 'blue' })
InsideAfterCss == <<CssMoulinette(InsidePropCss), DefaultsMoulinette(InsideBlue)>>

InsideCssOf(v) ==
    Raw(<<Str("width: 100px; height: 100px; background: "), v, Str(";")>>)

\* C5: a .css template takes its place in the chain like any moulinette,
\* and so do the default-props objects: the functions of the template are
\* called with what the defaults and moulinettes added after the .css call
\* made of the render props, and the CSS is built from what they return.
\* With insideProp set by a .with() before the .css call the function gets
\* no insideProp, with the .with() after the .css call it gets 'blue'.
C5_CssSeesOnlyWhatIsAddedAfter ==
    Rendered =>
        /\ \A j \in 1..Len(last.trace) :
              LET i == last.trace[j].index
                  m == last.def.chain[i]
                  seen == After(last.def.chain, i, last.received)
              IN  m.kind = "css" =>
                    /\ last.trace[j].input = seen
                    /\ \A x \in 1..Len(m.tpl) :
                          DOMAIN m.tpl[x] = {"prop"} =>
                              last.trace[j].output["css"].css[x] = Get(seen, m.tpl[x].prop)
        /\ (last.def.chain = InsideBeforeCss /\ "insideProp" \notin DOMAIN last.props) =>
              /\ "insideProp" \notin DOMAIN last.trace[1].input
              /\ last.resolved["css"] = InsideCssOf(Undefined)
        /\ (last.def.chain = InsideAfterCss /\ "insideProp" \notin DOMAIN last.props) =>
              /\ last.trace[2].input["insideProp"] = Str("blue")
              /\ last.resolved["css"] = InsideCssOf(Str("blue"))

C5_Witness ==
    /\ Rendered
    /\ last.def.chain = InsideBeforeCss
    /\ last.props = NoProps
    /\ last.trace[1].index = 2
    /\ last.resolved["css"] = InsideCssOf(Undefined)
    /\ last.resolved["insideProp"] = Str("blue")

\* The margin and padding properties, whose numbers the spacing multiplies.
MarginsAndPaddings ==
    {"margin", "marginTop", "marginRight", "marginBottom", "marginLeft",
     "padding", "paddingTop", "paddingRight", "paddingBottom", "paddingLeft"}

\* The shorthands of the alias list and what each stands for.
Shorthands ==
    [bg |-> {"backgroundColor"}, font |-> {"fontFamily"}, size |-> {"fontSize"},
     m  |-> {"margin"},  mx |-> {"marginLeft", "marginRight"},
     my |-> {"marginTop", "marginBottom"},
     mt |-> {"marginTop"}, mr |-> {"marginRight"},
     mb |-> {"marginBottom"}, ml |-> {"marginLeft"},
     p  |-> {"padding"}, px |-> {"paddingLeft", "paddingRight"},
     py |-> {"paddingTop", "paddingBottom"},
     pt |-> {"paddingTop"}, pr |-> {"paddingRight"},
     pb |-> {"paddingBottom"}, pl |-> {"paddingLeft"},
     b  |-> {"border"}, bx |-> {"borderLeft", "borderRight"},
     by |-> {"borderTop", "borderBottom"},
     bt |-> {"borderTop"}, br |-> {"borderRight"},
     bb |-> {"borderBottom"}, bl |-> {"borderLeft"}]

\* theme.spacing of the props the chain left, 1 without a theme
SpacingOf(p) ==
    IF "theme" \in DOMAIN p /\ "spacing" \in DOMAIN p["theme"].theme
    THEN p["theme"].theme.spacing ELSE 1

\* Property t gets its value from shorthand a alone: t is not given itself
\* and no other shorthand given stands for it.
OnlySource(p, a, t) ==
    /\ t \notin DOMAIN p
    /\ \A o \in (DOMAIN p \cap DOMAIN Shorthands) \ {a} : t \notin Shorthands[o]

\* C8: every shorthand key the chain leaves is replaced in the resolved
\* props by the properties it stands for, both of them for an axis
\* shorthand, and is itself absent; a property that only this shorthand
\* gives has the shorthand's value, a number of a margin or padding
\* multiplied by the theme's spacing (by 1 without a theme): mx 8 without
\* theme gives marginLeft 8 and marginRight 8, mx 2 with spacing 8 gives 16.
C8_AliasExpansion ==
    Rendered =>
        /\ \A a \in DOMAIN last.chained \cap DOMAIN Shorthands :
              /\ a \notin DOMAIN last.resolved
              /\ \A t \in Shorthands[a] :
                    /\ t \in DOMAIN last.resolved
                    /\ OnlySource(last.chained, a, t) =>
                          LET v == last.chained[a]
                          IN  IF t \in MarginsAndPaddings
                              THEN last.resolved[t] =
                                     IF IsNum(v)
                                     THEN Num(v.num * SpacingOf(last.chained))
                                     ELSE v
                              ELSE t \notin {"backgroundColor", "fontFamily", "fontSize"}
                                      => last.resolved[t] = v
        /\ last.chained = [mx |-> Num(8)] =>
              last.resolved = [marginLeft |-> Num(8), marginRight |-> Num(8)]
        /\ last.chained = [mx |-> Num(2), theme |-> ThemeValue(ReadmeTheme)] =>
              last.resolved = [marginLeft |-> Num(16), marginRight |-> Num(16),
                               theme |-> ThemeValue(ReadmeTheme)]

C8_Witness ==
    /\ Rendered
    /\ last.chained = [mx |-> Num(2), theme |-> ThemeValue(ReadmeTheme)]
    /\ last.resolved["marginLeft"] = Num(16)
    /\ last.resolved["marginRight"] = Num(16)
    /\ "mx" \notin DOMAIN last.resolved

\* The section of the theme that names the values of a property.
SectionOf(k) ==
    CASE k \in {"color", "borderColor", "backgroundColor"} -> "colors"
      [] k = "fontFamily" -> "fonts"
      [] k = "fontSize"   -> "sizes"

\* The names the theme of props p gives in a section, none without theme.
NamesOf(p, section) ==
    IF "theme" \in DOMAIN p /\ section \in DOMAIN p["theme"].theme
    THEN p["theme"].theme[section] ELSE << >>

\* The value property k is given by the props the chain left: its own, or
\* else that of its shorthand.
GivenValue(p, k) ==
    IF k \in DOMAIN p THEN p[k]
    ELSE p[CHOOSE a \in DOMAIN p \cap DOMAIN Shorthands : k \in Shorthands[a]]

\* C9: the value of color, borderColor and backgroundColor resolves to what
\* theme.colors maps it to when it is one of its keys and to itself
\* otherwise, also when there is no theme; so do fontFamily with
\* theme.fonts and fontSize with theme.sizes.  color 'primary' with colors
\* { primary: 'red' } is 'red', color 'red' stays 'red'.
C9_ThemeLookupFallsBack ==
    Rendered =>
        /\ \A k \in DOMAIN last.resolved \cap
                    {"color", "borderColor", "backgroundColor", "fontFamily", "fontSize"} :
              LET v == GivenValue(last.chained, k)
                  names == NamesOf(last.chained, SectionOf(k))
              IN  last.resolved[k] =
                      IF IsStr(v) /\ v.str \in DOMAIN names THEN names[v.str] ELSE v
        /\ last.chained = [color |-> Str("primary"), theme |-> ThemeValue(ReadmeTheme)] =>
              last.resolved["color"] = Str("red")
        /\ last.chained = [color |-> Str("red")] => last.resolved["color"] = Str("red")
        /\ last.chained = [color |-> Str("red"), theme |-> ThemeValue(ReadmeTheme)] =>
              last.resolved["color"] = Str("red")

C9_Witness ==
    /\ Rendered
    /\ last.chained = [color |-> Str("primary"), theme |-> ThemeValue(ReadmeTheme)]
    /\ last.resolved["color"] = Str("red")

\* Keys that are CSS properties, selectors or at-rules.
CssNames ==
    {"width", "height", "background", "backgroundColor", "color", "display",
     "marginLeft", "marginRight", "marginBottom", "fontFamily", "fontSize",
     "border", "paddingLeft", "paddingRight", "paddingTop", "paddingBottom",
     "& p", ":hover", "@media (max-width: 720px)"}

\* Keys that are neither.
OtherNames == {"id", "as", "theme", "children", "disabled"}

\* C10: every key of the resolved props is in exactly one of the style
\* props and the forwarded props, with its resolved value: a CSS property,
\* selector or at-rule generates CSS and is not forwarded, the block of a
\* selector being the one passed; any other key, such as id, is forwarded
\* and generates no CSS.
C10_StyleOrForwarded ==
    Rendered =>
        /\ DOMAIN last.style \cup DOMAIN last.forwarded = DOMAIN last.resolved
        /\ DOMAIN last.style \cap DOMAIN last.forwarded = {}
        /\ \A k \in DOMAIN last.style : last.style[k] = last.resolved[k]
        /\ \A k \in DOMAIN last.forwarded : last.forwarded[k] = last.resolved[k]
        /\ DOMAIN last.resolved \cap CssNames \subseteq DOMAIN last.style
        /\ DOMAIN last.resolved \cap OtherNames \subseteq DOMAIN last.forwarded
        /\ \A k \in DOMAIN last.chained \cap {"& p", ":hover", "@media (max-width: 720px)"} :
              last.style[k] = last.chained[k]
        /\ "id" \in DOMAIN last.chained => last.forwarded["id"] = last.chained["id"]

C10_Witness ==
    /\ Rendered
    /\ last.props = CssObject
    /\ last.style[":hover"] = Block([background |-> Str("yellow")])
    /\ DOMAIN CssObject \subseteq DOMAIN last.style
    /\ "as" \in DOMAIN last.forwarded

====
